---- MODULE Spec2Model ----
(***************************************************************************)
(* Selector healing (healing/aiLocator.ts) over the healed-locators cache  *)
(* (utils/cache.ts).                                                       *)
(*                                                                         *)
(* Text is modelled at word level: an attribute value or a selector value  *)
(* is the sequence of its lower-case alphanumeric words, joined by '-' in  *)
(* the program's text.  A class attribute is a sequence of class names.    *)
(* An absent attribute and an empty one are both <<>> (or "" for the       *)
(* one-word attributes type and role): the code reads every attribute      *)
(* through `|| ''` or a truthiness test, which do not tell them apart.     *)
(***************************************************************************)
EXTENDS Integers, Sequences, FiniteSets, TLC

\* ------------------------------------------------------------------ bounds

\* Largest maxAIRetries a caller passes explicitly (the default is 6).
MaxRetries == 2

\* Largest number of elements of a snapshot handed to heuristicHeal alone.
MaxElements == 2

\* ------------------------------------------------------------- word level

\* Pairs <<a, b>> of vocabulary words with a a proper substring of b.
ProperSubstr ==
    { <<"box", "inbox">>, <<"form", "platform">>, <<"container", "subcontainer">> }

\* String.prototype.includes for a one-word needle in a word.
SubstrOf(needle, word) == needle = word \/ <<needle, word>> \in ProperSubstr

\* The vocabulary words of fewer than three characters.
ShortWords == {"go", "ok", "a"}

Range(s) == { s[i] : i \in 1..Len(s) }

RECURSIVE Flatten(_)
Flatten(ss) == IF ss = <<>> THEN <<>> ELSE Head(ss) \o Flatten(Tail(ss))

RECURSIVE Dedup(_)
\* Array.from(new Set(raw)): first occurrences, in order.
Dedup(s) ==
    IF s = <<>> THEN <<>>
    ELSE LET r == Dedup(SubSeq(s, 1, Len(s) - 1))
             x == s[Len(s)]
         IN  IF x \in Range(r) THEN r ELSE Append(r, x)

\* hay.includes(n) for a one-word needle n and a text given by its words.
Includes(hay, n) == \E i \in 1..Len(hay) : SubstrOf(n, hay[i])

containsAny(hay, needles) == \E n \in needles : Includes(hay, n)

containsAll(hay, needles) == \A n \in needles : Includes(hay, n)

\* eq(a, b): case-insensitive equality of the whole attribute text.
eq(a, b) == a = b

\* ------------------------------------------------------------------- DOM

NoAttr == [ tag |-> "div", type |-> "", role |-> "", id |-> <<>>, dt |-> <<>>,
            dti |-> <<>>, name |-> <<>>, aria |-> <<>>, value |-> <<>>,
            cls |-> <<>>, text |-> <<>> ]

\* All words of a class attribute (a sequence of class names).
ClassWords(el) == Flatten(el.cls)

\* ------------------------------------------------------------- selectors

NULL == [k |-> "null"]
\* The empty string, falsy in the code's `x && ...` tests.
EmptySel == [k |-> "empty"]
\* A text cheerio cannot parse as a selector: $(text) throws.
InvalidSel == [k |-> "invalid"]

IdSel(v) == [k |-> "id", v |-> v]
DtSel(v) == [k |-> "dt", v |-> v]
DtiSel(v) == [k |-> "dti", v |-> v]
NameSel(tag, v) == [k |-> "name", tag |-> tag, v |-> v]
AriaSel(tag, v) == [k |-> "aria", tag |-> tag, v |-> v]
ClassSel(v) == [k |-> "class", v |-> v]
TagSel(tag) == [k |-> "tag", tag |-> tag]

Truthy(sel) == sel # NULL /\ sel # EmptySel

\* v occurs in w as a run of whole words (the word-level reading of *=).
RunOf(v, w) == \E i \in 0..(Len(w) - Len(v)) : SubSeq(w, i + 1, i + Len(v)) = v

\* Whether element el matches selector sel (css-select, as cheerio's $()).
ElMatches(el, sel) ==
    CASE sel.k = "id"    -> el.id = sel.v /\ sel.v # <<>>
      [] sel.k = "dt"    -> el.dt = sel.v /\ sel.v # <<>>
      [] sel.k = "dti"   -> el.dti = sel.v /\ sel.v # <<>>
      [] sel.k = "name"  -> el.tag = sel.tag /\ el.name = sel.v /\ sel.v # <<>>
      [] sel.k = "aria"  -> el.tag = sel.tag /\ sel.v # <<>> /\ RunOf(sel.v, el.aria)
      [] sel.k = "class" -> sel.v \in Range(el.cls)
      [] sel.k = "tag"   -> el.tag = sel.tag
      [] OTHER           -> FALSE

\* $(selector): the matched elements, in document order.
Select(snap, sel) == SelectSeq(snap, LAMBDA el : ElMatches(el, sel))

\* The alphanumeric words of a selector's text, in order.
SelWords(sel) ==
    CASE sel.k = "id"    -> sel.v
      [] sel.k = "dt"    -> <<"data", "test">> \o sel.v
      [] sel.k = "dti"   -> <<"data", "testid">> \o sel.v
      [] sel.k = "name"  -> <<sel.tag, "name">> \o sel.v
      [] sel.k = "aria"  -> <<sel.tag, "aria", "label">> \o sel.v
      [] sel.k = "class" -> sel.v
      [] sel.k = "tag"   -> <<sel.tag>>
      [] OTHER           -> <<>>

\* The element test inside isClickableSelector's arr.some(...).
ClickableEl(el) ==
    \/ el.tag = "button"
    \/ el.tag = "input" /\ el.type \in {"submit", "button"}
    \/ el.tag = "a" /\ (el.role = "button" \/ "btn" \in Range(ClassWords(el)))

isClickableSelector(snap, sel) ==
    IF sel.k \in {"invalid", "null", "empty"} THEN FALSE
    ELSE \E i \in 1..Len(snap) : ElMatches(snap[i], sel) /\ ClickableEl(snap[i])

\* ------------------------------------------------------------- heuristic

extractTokens(sel) ==
    LET raw   == SelWords(sel)
        dedup == SelectSeq(Dedup(raw), LAMBDA t : t \notin ShortWords)
    IN  SelectSeq(dedup, LAMBDA t : t = "login")
          \o SelectSeq(dedup, LAMBDA t : t = "button")
          \o SelectSeq(dedup, LAMBDA t : t \notin {"login", "button"})

\* tokenMatchScore: weightPerHit for every token the value includes.
tokenMatchScore(tokens, value, weightPerHit) ==
    IF value = <<>> THEN 0
    ELSE weightPerHit * Cardinality({ i \in 1..Len(tokens) : Includes(value, tokens[i]) })

\* /container|wrapper/i.test(text)
ContainerText(words) == containsAny(words, {"container", "wrapper"})

\* Mutant: the preference data-test > id instead of id > data-test.
buildBestSelectorDataTestFirst(el) ==
    IF el.dt # <<>> /\ ~ContainerText(el.dt) THEN DtSel(el.dt)
    ELSE IF el.id # <<>> /\ ~ContainerText(el.id) THEN IdSel(el.id)
    ELSE IF el.dti # <<>> THEN DtiSel(el.dti)
    ELSE IF el.name # <<>> THEN NameSel(el.tag, el.name)
    ELSE IF el.aria # <<>> THEN AriaSel(el.tag, el.aria)
    ELSE IF el.cls # <<>> /\ ~ContainerText(el.cls[1]) THEN ClassSel(el.cls[1])
    ELSE TagSel(el.tag)

\* Mutant: the data-test value taken without the container/wrapper test.
buildBestSelectorAnyDataTest(el) ==
    IF el.id # <<>> /\ ~ContainerText(el.id) THEN IdSel(el.id)
    ELSE IF el.dt # <<>> THEN DtSel(el.dt)
    ELSE IF el.dti # <<>> THEN DtiSel(el.dti)
    ELSE IF el.name # <<>> THEN NameSel(el.tag, el.name)
    ELSE IF el.aria # <<>> THEN AriaSel(el.tag, el.aria)
    ELSE IF el.cls # <<>> /\ ~ContainerText(el.cls[1]) THEN ClassSel(el.cls[1])
    ELSE TagSel(el.tag)

buildBestSelectorFor(el) ==
    IF el.id # <<>> /\ ~ContainerText(el.id) THEN IdSel(el.id)
    ELSE IF el.dt # <<>> /\ ~ContainerText(el.dt) THEN DtSel(el.dt)
    ELSE IF el.dti # <<>> THEN DtiSel(el.dti)
    ELSE IF el.name # <<>> THEN NameSel(el.tag, el.name)
    ELSE IF el.aria # <<>> THEN AriaSel(el.tag, el.aria)
    ELSE IF el.cls # <<>> /\ ~ContainerText(el.cls[1]) THEN ClassSel(el.cls[1])
    ELSE TagSel(el.tag)

\* Mutant: the candidate list without the 'button' selector.
CandidatesWithoutButton(snap) ==
    SelectSeq(snap, LAMBDA el : el.tag = "input" /\ el.type = "submit")
      \o SelectSeq(snap, LAMBDA el : el.tag = "input" /\ el.type = "button")
      \o SelectSeq(snap, LAMBDA el : el.role = "button")
      \o SelectSeq(snap, LAMBDA el : el.tag = "a" /\ <<"btn">> \in Range(el.cls))
      \o SelectSeq(snap, LAMBDA el : el.tag = "a" /\ el.role = "button")

\* The six clickable-role selectors of heuristicHeal, in the code's order.
Candidates(snap) ==
    SelectSeq(snap, LAMBDA el : el.tag = "button")
      \o SelectSeq(snap, LAMBDA el : el.tag = "input" /\ el.type = "submit")
      \o SelectSeq(snap, LAMBDA el : el.tag = "input" /\ el.type = "button")
      \o SelectSeq(snap, LAMBDA el : el.role = "button")
      \o SelectSeq(snap, LAMBDA el : el.tag = "a" /\ <<"btn">> \in Range(el.cls))
      \o SelectSeq(snap, LAMBDA el : el.tag = "a" /\ el.role = "button")

\* The negative filter: id + ' ' + class names a structural wrapper.
looksContainer(el) ==
    containsAny(el.id \o ClassWords(el),
                {"container", "wrapper", "form", "box", "panel", "section"})

\* The score s of one candidate that passed the negative filter.
Score(tokens, el) ==
    LET sel == buildBestSelectorFor(el)
    IN    (IF el.tag = "button" THEN 8 ELSE 0)
        + (IF el.tag = "input" /\ el.type \in {"submit", "button"} THEN 8 ELSE 0)
        + (IF el.tag = "a" THEN 3 ELSE 0)
        + (IF eq(el.dt, <<"login", "button">>) THEN 50 ELSE 0)
        + (IF eq(el.id, <<"login", "button">>) THEN 50 ELSE 0)
        + tokenMatchScore(tokens, el.id, 12)
        + tokenMatchScore(tokens, el.dt, 14)
        + tokenMatchScore(tokens, el.dti, 10)
        + tokenMatchScore(tokens, el.name, 8)
        + tokenMatchScore(tokens, el.aria, 6)
        + tokenMatchScore(tokens, el.value, 4)
        + tokenMatchScore(tokens, ClassWords(el), 2)
        + tokenMatchScore(tokens, el.text, 6)
        - (IF ContainerText(el.dt) THEN 30 ELSE 0)
        - (IF ContainerText(el.id) THEN 30 ELSE 0)
        + (IF containsAll(el.id \o el.dt, {"login", "button"}) THEN 40 ELSE 0)
        + (IF sel.k = "id" THEN 8 ELSE 0)
        + (IF sel.k = "dt" THEN 6 ELSE 0)

RECURSIVE BestOf(_, _, _)
\* The loop over the candidates: best is <<bestSel, bestScore>>, or <<>>
\* while bestScore is still -Infinity.
BestOf(tokens, cands, best) ==
    IF cands = <<>> THEN best
    ELSE LET el == Head(cands)
             s  == Score(tokens, el)
         IN  IF looksContainer(el) THEN BestOf(tokens, Tail(cands), best)
             ELSE IF best = <<>> \/ s > best[2]
                  THEN BestOf(tokens, Tail(cands), <<buildBestSelectorFor(el), s>>)
                  ELSE BestOf(tokens, Tail(cands), best)

\* The words of a selector's text that stand between two of the characters
\* start, end, quote, '-' and space.
GuardWords(sel) ==
    CASE sel.k \in {"id", "class"} -> IF sel.v = <<>> THEN <<>> ELSE Tail(sel.v)
      [] sel.k \in {"dt", "dti", "name", "aria"} -> sel.v
      [] sel.k = "tag" -> <<sel.tag>>
      [] OTHER -> <<>>

\* /(^|["'\-\s])(login-container|wrapper|container)(["'\-\s]|$)/i.test(sel)
ContainerGuard(sel) == \E w \in Range(GuardWords(sel)) : w \in {"container", "wrapper"}

heuristicHeal(snap, failed) ==
    LET tokens == extractTokens(failed)
        cands  == Candidates(snap)
        best   == BestOf(tokens, cands, <<>>)
    IN  IF cands = <<>> THEN NULL
        ELSE IF best = <<>> THEN NULL
        ELSE IF ContainerGuard(best[1]) THEN NULL
        ELSE best[1]

\* ----------------------------------------------------------------- cache

\* Content of healed-locators.json: no file, only white space, text that is
\* not JSON, the JSON text null, or a JSON object (db: broken -> entry).
FileMissing == [kind |-> "missing"]
FileBlank == [kind |-> "blank"]
FileGarbage == [kind |-> "garbage"]
FileNull == [kind |-> "null"]
FileJson(db) == [kind |-> "json", db |-> db]

\* The object {}.
EmptyDb == <<>>

CacheEntry(healed, source) == [healed |-> healed, source |-> source]

\* Mutant: an assignment that keeps the entry a key already has.
PutIfAbsent(db, broken, entry) ==
    [k \in DOMAIN db \cup {broken} |-> IF k \in DOMAIN db THEN db[k] ELSE entry]

\* db[broken] = entry
Put(db, broken, entry) ==
    [k \in DOMAIN db \cup {broken} |-> IF k = broken THEN entry ELSE db[k]]

\* readFile(): what it returns for file content f; ioOk is FALSE when the
\* file system call throws.
readFile(f, ioOk) ==
    IF ~ioOk THEN [t |-> "object", db |-> EmptyDb]
    ELSE CASE f.kind = "json" -> [t |-> "object", db |-> f.db]
           [] f.kind = "null" -> [t |-> "null"]
           [] OTHER           -> [t |-> "object", db |-> EmptyDb]

\* getHealed(broken): the entry, undefined, or a TypeError thrown.
getHealed(f, ioOk, broken) ==
    LET r == readFile(f, ioOk)
    IN  IF r.t = "null" THEN [t |-> "throw"]
        ELSE IF broken \in DOMAIN r.db THEN [t |-> "entry", entry |-> r.db[broken]]
        ELSE [t |-> "undefined"]

\* writeFile(obj): the file content afterwards.
writeFile(f, ioOk, db) == IF ioOk THEN FileJson(db) ELSE f

\* setHealed(broken, healed, source): whether it threw, and the file after.
setHealed(f, readOk, writeOk, broken, healed, source) ==
    LET r == readFile(f, readOk)
    IN  IF r.t = "null" THEN [threw |-> TRUE, file |-> f]
        ELSE [threw |-> FALSE,
              file  |-> writeFile(f, writeOk, Put(r.db, broken, CacheEntry(healed, source)))]

\* ------------------------------------------------------------ inputs

BtnLogin ==
    [NoAttr EXCEPT !.tag = "button", !.id = <<"login", "button">>,
                   !.dt = <<"login", "button">>, !.text = <<"login">>]
InputSubmit ==
    [NoAttr EXCEPT !.tag = "input", !.type = "submit", !.id = <<"login", "button">>,
                   !.dt = <<"login", "button">>, !.name = <<"login", "button">>,
                   !.value = <<"login">>, !.cls = << <<"submit", "button">> >>]
DivLoginContainer == [NoAttr EXCEPT !.cls = << <<"login", "container">> >>]
BtnContainer ==
    [NoAttr EXCEPT !.tag = "button", !.id = <<"login", "container">>, !.text = <<"login">>]
DivRoleButton == [NoAttr EXCEPT !.role = "button", !.id = <<"go">>]
AnchorBtnPrimary ==
    [NoAttr EXCEPT !.tag = "a", !.cls = << <<"btn", "primary">> >>, !.text = <<"login">>]
AnchorBtn == [NoAttr EXCEPT !.tag = "a", !.cls = << <<"btn">> >>, !.text = <<"sign", "in">>]
BtnTestid == [NoAttr EXCEPT !.tag = "button", !.dti = <<"submit", "container">>]
BtnPlain == [NoAttr EXCEPT !.tag = "button", !.text = <<"ok">>]

\* The DOM snapshots (elements in document order).
SnapLogin == <<DivLoginContainer, BtnLogin>>
SnapNoButton == <<DivLoginContainer>>
SnapSauce == <<DivLoginContainer, InputSubmit>>
SnapWrapped == <<BtnContainer>>
SnapRoleDiv == <<DivRoleButton, AnchorBtnPrimary>>
SnapAnchor == <<AnchorBtn, BtnTestid>>
SnapTwo == <<BtnPlain, BtnLogin>>

Snapshots ==
    {SnapLogin, SnapNoButton, SnapSauce, SnapWrapped, SnapRoleDiv, SnapAnchor, SnapTwo}

\* '#login-button-invalid' (tests/login.spec.ts) and '#login-button' (LoginPage).
BrokenInvalid == IdSel(<<"login", "button", "invalid">>)
BrokenLogin == IdSel(<<"login", "button">>)
FailedSelectors == {BrokenInvalid, BrokenLogin}

\* healSelector(failedSelector, htmlSnapshot) with opts = {}.
NoOpts == [preferHeuristic |-> <<>>, allowAI |-> <<>>, maxAIRetries |-> <<>>,
           backoffMs |-> <<>>]

\* An option is <<>> when the caller omits it and <<v>> when it passes v.
\* maxAIRetries is omitted (6 attempts) in the call without options only.
OptsSet ==
    [ preferHeuristic : {<<>>, <<TRUE>>, <<FALSE>>},
      allowAI         : {<<>>, <<TRUE>>, <<FALSE>>},
      maxAIRetries    : { <<n>> : n \in 0..MaxRetries },
      backoffMs       : {<<>>, <<100>>} ]
      \cup {NoOpts}

\* process.env: the variable's text, "" when unset or empty.
EnvSet == [OPENAI_API_KEY : {"", "sk"}, AI_DISABLED : {"", "true"}]

\* What the file may hold when the process starts.
InitFiles ==
    { FileMissing, FileBlank, FileGarbage, FileNull, FileJson(EmptyDb),
      FileJson(Put(EmptyDb, BrokenInvalid, CacheEntry(IdSel(<<"login", "button">>), "heuristic"))),
      FileJson(Put(EmptyDb, BrokenInvalid, CacheEntry(ClassSel(<<"login", "container">>), "ai"))),
      FileJson(Put(EmptyDb, BrokenLogin, CacheEntry(IdSel(<<"old", "login">>), "heuristic"))) }

\* First lines the remote model may answer with.
AILines ==
    { EmptySel, InvalidSel, IdSel(<<"login", "button">>), IdSel(<<"login", "container">>),
      ClassSel(<<"login", "container">>), ClassSel(<<"btn", "primary">>), TagSel("div") }

\* Outcomes of one axios.post: a 2xx answer whose first line is line wrapped
\* in the named quote characters, or a rejection with e.response.status = status
\* (0: no response at all, a transport error).
Responses ==
    [status : {200}, wrap : {"", "backtick", "quote"}, line : AILines]
      \cup [status : {429, 500, 0}]

\* ---------------------------------------------------------- healSelector

DefaultPreferHeuristic == TRUE
DefaultAllowAI == TRUE
DefaultMaxAIRetries == 6
DefaultBackoffMs == 500

Opt(given, default) == IF given = <<>> THEN default ELSE given[1]

preferHeuristicOf(o) == Opt(o.preferHeuristic, DefaultPreferHeuristic)
allowAIOf(o) == Opt(o.allowAI, DefaultAllowAI)
maxAIRetriesOf(o) == Opt(o.maxAIRetries, DefaultMaxAIRetries)
backoffMsOf(o) == Opt(o.backoffMs, DefaultBackoffMs)

\* Mutant: the cache stage with its clickability test inverted.
CacheStageInverted(fromCache, snap) ==
    IF fromCache.t = "entry" /\ ~isClickableSelector(snap, fromCache.entry.healed)
    THEN fromCache.entry.healed
    ELSE NULL

\* Mutant: the cache stage trusting any cached entry.
CacheStageUnchecked(fromCache, snap) ==
    IF fromCache.t = "entry" THEN fromCache.entry.healed ELSE NULL

\* 1) Cache: the selector returned by the cache stage, or NULL on a miss.
CacheStage(fromCache, snap) ==
    IF fromCache.t = "entry" /\ isClickableSelector(snap, fromCache.entry.healed)
    THEN fromCache.entry.healed
    ELSE NULL

\* Mutant: the heuristic stage without the clickability gate.
HeuristicStageUngated(snap, failed) ==
    IF Truthy(heuristicHeal(snap, failed)) THEN heuristicHeal(snap, failed) ELSE NULL

\* 2) Heuristic: the selector the heuristic stage accepts, or NULL.
HeuristicStage(snap, failed) ==
    LET heuristic == heuristicHeal(snap, failed)
    IN  IF Truthy(heuristic) /\ isClickableSelector(snap, heuristic) THEN heuristic ELSE NULL

\* Mutant: the AI fallback guarded by the credential alone.
AIFallbackIgnoresOption(o, e) == e.OPENAI_API_KEY # ""

\* Mutant: the AI fallback guarded by allowAI alone.
AIFallbackIgnoresKey(o, e) == allowAIOf(o)

\* 3) The condition under which the AI fallback runs.
AIFallbackEnabled(o, e) == allowAIOf(o) /\ e.OPENAI_API_KEY # ""

\* The selector of an aiHeal result that healSelector accepts, or NULL.
AIStage(snap, ai) == IF Truthy(ai) /\ isClickableSelector(snap, ai) THEN ai ELSE NULL

\* ------------------------------------------------------------------ state

VARIABLES
    file,            \* content of healed-locators.json
    env,             \* process.env
    faulty,          \* whether file system calls may throw
    pc,              \* where the healSelector call stands
    failedSelector,  \* arguments of the call
    htmlSnapshot,
    opts,
    attempt,         \* aiHeal's loop counter
    delay,           \* aiHeal's current backoff
    result,          \* the selector returned, NULL for null
    log,             \* what the call did so far, in order
    fileAtCall,      \* the file content when the call began
    cleaned,         \* aiHeal's cleaned, when the last answer was a 2xx
    workers          \* the test workers that run setHealed on the shared file

vars == <<file, env, faulty, pc, failedSelector, htmlSnapshot, opts, attempt, delay,
          result, log, fileAtCall, cleaned, workers>>

\* Outcomes of one file system call: TRUE it succeeds, FALSE it throws.
IoChoices == IF faulty THEN BOOLEAN ELSE {TRUE}

EvCache(hit) == [e |-> "cache", hit |-> hit]
EvHeuristic(found) == [e |-> "heuristic", found |-> found]
EvSetHealed(healed, source) == [e |-> "setHealed", healed |-> healed, source |-> source]
EvAI == [e |-> "ai"]
EvRequest == [e |-> "request"]
EvResponse(status) == [e |-> "response", status |-> status]
EvSleep(ms) == [e |-> "sleep", ms |-> ms]

\* The call's state after a step: where it stands, its result, the file.
Out(p, res, f, l, a, d) ==
    [pc |-> p, result |-> res, file |-> f, log |-> l, attempt |-> a, delay |-> d]

\* setHealed(failedSelector, healed, source); return healed;
SaveAndReturn(f, readOk, writeOk, failed, healed, source, l, a, d) ==
    LET saved == setHealed(f, readOk, writeOk, failed, healed, source)
        l2    == Append(l, EvSetHealed(healed, source))
    IN  IF saved.threw THEN Out("threw", NULL, saved.file, l2, a, d)
        ELSE Out("returned", healed, saved.file, l2, a, d)

\* Mutant: the AI stage's selector saved under the heuristic's origin.
AfterAIWrongOrigin(f, readOk, writeOk, failed, snap, ai, l, a, d) ==
    IF AIStage(snap, ai) # NULL
    THEN SaveAndReturn(f, readOk, writeOk, failed, AIStage(snap, ai), "heuristic", l, a, d)
    ELSE Out("returned", NULL, f, l, a, d)

\* The end of healSelector once aiHeal has returned ai.
AfterAI(f, readOk, writeOk, failed, snap, ai, l, a, d) ==
    IF AIStage(snap, ai) # NULL
    THEN SaveAndReturn(f, readOk, writeOk, failed, AIStage(snap, ai), "ai", l, a, d)
    ELSE Out("returned", NULL, f, l, a, d)

\* Mutant: the loop running one attempt too many.
LoopHeadOneMore(f, o, l, a, d) ==
    IF a <= maxAIRetriesOf(o) + 1
    THEN Out("request", NULL, f, Append(l, EvRequest), a, d)
    ELSE Out("returned", NULL, f, l, a, d)

\* aiHeal's loop head with counter a: the next request is issued, or the
\* loop ends and aiHeal returns null.
LoopHead(f, o, l, a, d) ==
    IF a <= maxAIRetriesOf(o)
    THEN Out("request", NULL, f, Append(l, EvRequest), a, d)
    ELSE Out("returned", NULL, f, l, a, d)

\* healSelector from its entry to its first await (or its return).
HealSync(f, e, failed, snap, o, readOk, readOk2, writeOk) ==
    LET fromCache == getHealed(f, readOk, failed)
        cached    == CacheStage(fromCache, snap)
        l1        == <<EvCache(cached # NULL)>>
        heuristic == HeuristicStage(snap, failed)
        l2        == IF preferHeuristicOf(o) THEN Append(l1, EvHeuristic(heuristic # NULL))
                     ELSE l1
    IN  IF fromCache.t = "throw" THEN Out("threw", NULL, f, <<>>, 0, 0)
        ELSE IF cached # NULL THEN Out("returned", cached, f, l1, 0, 0)
        ELSE IF preferHeuristicOf(o) /\ heuristic # NULL
             THEN SaveAndReturn(f, readOk2, writeOk, failed, heuristic, "heuristic", l2, 0, 0)
        ELSE IF AIFallbackEnabled(o, e)
             THEN LoopHead(f, o, Append(l2, EvAI), 1, backoffMsOf(o))
        ELSE Out("returned", NULL, f, l2, 0, 0)

\* const cleaned = firstLine stripped of surrounding backticks and quotes.
Cleaned(resp) == resp.line

\* /login-container/i.test(cleaned)
LoginContainerText(sel) ==
    /\ sel.k \in {"id", "dt", "dti", "name", "aria", "class"}
    /\ RunOf(<<"login", "container">>, sel.v)

\* Mutant: aiHeal backing off and retrying after any failed request.
OnResponseRetriesAnyError(f, readOk, writeOk, failed, snap, o, resp, l, a, d) ==
    LET l1 == Append(l, EvResponse(resp.status))
    IN  IF resp.status = 200
        THEN IF Truthy(Cleaned(resp)) /\ isClickableSelector(snap, Cleaned(resp))
             THEN AfterAI(f, readOk, writeOk, failed, snap, Cleaned(resp), l1, a, d)
             ELSE IF LoginContainerText(Cleaned(resp))
             THEN AfterAI(f, readOk, writeOk, failed, snap, NULL, l1, a, d)
             ELSE IF a + 1 <= maxAIRetriesOf(o) THEN LoopHead(f, o, l1, a + 1, d)
             ELSE AfterAI(f, readOk, writeOk, failed, snap, NULL, l1, a + 1, d)
        ELSE IF a < maxAIRetriesOf(o)
             THEN Out("sleep", NULL, f, Append(l1, EvSleep(d)), a, d)
        ELSE AfterAI(f, readOk, writeOk, failed, snap, NULL, l1, a, d)

\* Mutant: aiHeal without its login-container test on the answer.
OnResponseKeepsMarker(f, readOk, writeOk, failed, snap, o, resp, l, a, d) ==
    LET l1 == Append(l, EvResponse(resp.status))
    IN  IF resp.status = 200
        THEN IF Truthy(Cleaned(resp)) /\ isClickableSelector(snap, Cleaned(resp))
             THEN AfterAI(f, readOk, writeOk, failed, snap, Cleaned(resp), l1, a, d)
             ELSE IF a + 1 <= maxAIRetriesOf(o) THEN LoopHead(f, o, l1, a + 1, d)
             ELSE AfterAI(f, readOk, writeOk, failed, snap, NULL, l1, a + 1, d)
        ELSE IF resp.status = 429 /\ a < maxAIRetriesOf(o)
             THEN Out("sleep", NULL, f, Append(l1, EvSleep(d)), a, d)
        ELSE AfterAI(f, readOk, writeOk, failed, snap, NULL, l1, a, d)

\* Mutant: aiHeal retrying a rate-limited request at once, without a sleep.
OnResponseRetriesAtOnce(f, readOk, writeOk, failed, snap, o, resp, l, a, d) ==
    LET l1 == Append(l, EvResponse(resp.status))
    IN  IF resp.status = 200
        THEN IF Truthy(Cleaned(resp)) /\ isClickableSelector(snap, Cleaned(resp))
             THEN AfterAI(f, readOk, writeOk, failed, snap, Cleaned(resp), l1, a, d)
             ELSE IF LoginContainerText(Cleaned(resp))
             THEN AfterAI(f, readOk, writeOk, failed, snap, NULL, l1, a, d)
             ELSE IF a + 1 <= maxAIRetriesOf(o) THEN LoopHead(f, o, l1, a + 1, d)
             ELSE AfterAI(f, readOk, writeOk, failed, snap, NULL, l1, a + 1, d)
        ELSE IF resp.status = 429 /\ a < maxAIRetriesOf(o)
             THEN LoopHead(f, o, l1, a + 1, d * 2)
        ELSE AfterAI(f, readOk, writeOk, failed, snap, NULL, l1, a, d)

\* aiHeal from the settling of axios.post to its next await (or its return,
\* followed by the end of healSelector).
OnResponse(f, readOk, writeOk, failed, snap, o, resp, l, a, d) ==
    LET l1 == Append(l, EvResponse(resp.status))
    IN  IF resp.status = 200
        THEN IF Truthy(Cleaned(resp)) /\ isClickableSelector(snap, Cleaned(resp))
             THEN AfterAI(f, readOk, writeOk, failed, snap, Cleaned(resp), l1, a, d)
             ELSE IF LoginContainerText(Cleaned(resp))
             THEN AfterAI(f, readOk, writeOk, failed, snap, NULL, l1, a, d)
             ELSE IF a + 1 <= maxAIRetriesOf(o) THEN LoopHead(f, o, l1, a + 1, d)
             ELSE AfterAI(f, readOk, writeOk, failed, snap, NULL, l1, a + 1, d)
        ELSE IF resp.status = 429 /\ a < maxAIRetriesOf(o)
             THEN Out("sleep", NULL, f, Append(l1, EvSleep(d)), a, d)
        ELSE AfterAI(f, readOk, writeOk, failed, snap, NULL, l1, a, d)

Apply(out) ==
    /\ pc' = out.pc
    /\ result' = out.result
    /\ file' = out.file
    /\ log' = out.log
    /\ attempt' = out.attempt
    /\ delay' = out.delay

Init ==
    /\ file \in InitFiles
    /\ env \in EnvSet
    /\ faulty = FALSE
    /\ pc = "idle"
    /\ failedSelector = NULL
    /\ htmlSnapshot = <<>>
    /\ opts = NoOpts
    /\ attempt = 0
    /\ delay = 0
    /\ result = NULL
    /\ log = <<>>
    /\ fileAtCall = file
    /\ cleaned = NULL
    /\ workers = <<>>

\* A test calls healSelector(failed, snap, o); it runs to its first await.
HealSelector ==
    /\ pc = "idle"
    /\ \E failed \in FailedSelectors, snap \in Snapshots, o \in OptsSet,
          readOk \in IoChoices, readOk2 \in IoChoices, writeOk \in IoChoices :
          /\ failedSelector' = failed
          /\ htmlSnapshot' = snap
          /\ opts' = o
          /\ fileAtCall' = file
          /\ Apply(HealSync(file, env, failed, snap, o, readOk, readOk2, writeOk))
    /\ cleaned' = NULL
    /\ UNCHANGED <<env, faulty, workers>>

\* The pending axios.post settles.
AxiosSettles ==
    /\ pc = "request"
    /\ \E resp \in Responses, readOk \in IoChoices, writeOk \in IoChoices :
          /\ Apply(OnResponse(file, readOk, writeOk, failedSelector, htmlSnapshot, opts,
                              resp, log, attempt, delay))
          /\ cleaned' = IF resp.status = 200 THEN Cleaned(resp) ELSE NULL
    /\ UNCHANGED <<env, faulty, failedSelector, htmlSnapshot, opts, fileAtCall, workers>>

\* Mutant: the retry after a backoff that does not double the delay.
TimerFiresSameDelay ==
    /\ pc = "sleep"
    /\ Apply(LoopHead(file, opts, log, attempt + 1, delay))
    /\ cleaned' = NULL
    /\ UNCHANGED <<env, faulty, failedSelector, htmlSnapshot, opts, fileAtCall, workers>>

\* The backoff timer fires: delay *= 2; continue;
TimerFires ==
    /\ pc = "sleep"
    /\ Apply(LoopHead(file, opts, log, attempt + 1, delay * 2))
    /\ cleaned' = NULL
    /\ UNCHANGED <<env, faulty, failedSelector, htmlSnapshot, opts, fileAtCall, workers>>

\* The caller takes the result (or the exception); the next call may begin.
CallEnds ==
    /\ pc \in {"returned", "threw"}
    /\ pc' = "idle"
    /\ failedSelector' = NULL
    /\ htmlSnapshot' = <<>>
    /\ opts' = NoOpts
    /\ attempt' = 0
    /\ delay' = 0
    /\ result' = NULL
    /\ log' = <<>>
    /\ fileAtCall' = file
    /\ cleaned' = NULL
    /\ UNCHANGED <<file, env, faulty, workers>>

Next == HealSelector \/ AxiosSettles \/ TimerFires \/ CallEnds

Spec == Init /\ [][Next]_vars

\* The same program on a file system whose calls may throw.
InitFaulty ==
    /\ file \in InitFiles
    /\ env \in EnvSet
    /\ faulty = TRUE
    /\ pc = "idle"
    /\ failedSelector = NULL
    /\ htmlSnapshot = <<>>
    /\ opts = NoOpts
    /\ attempt = 0
    /\ delay = 0
    /\ result = NULL
    /\ log = <<>>
    /\ fileAtCall = file
    /\ cleaned = NULL
    /\ workers = <<>>

SpecFaulty == InitFaulty /\ [][Next]_vars

\* ------------------------------------------------------ the cache alone

\* Selectors and origins a caller hands to setHealed (type Source).
CacheSelectors == { IdSel(<<"login", "button">>), ClassSel(<<"login", "container">>) }
CacheSources == {"heuristic", "ai", "cache"}

\* File contents for the cache alone: InitFiles and a file with two entries.
CacheFiles ==
    InitFiles \cup
      { FileJson(Put(Put(EmptyDb, BrokenInvalid,
                         CacheEntry(IdSel(<<"login", "button">>), "heuristic")),
                     BrokenLogin, CacheEntry(IdSel(<<"old", "login">>), "ai"))) }

EvSetCall(k, healed, source, threw) ==
    [e |-> "set", k |-> k, healed |-> healed, source |-> source, threw |-> threw]
EvGetCall(k, got) == [e |-> "get", k |-> k, got |-> got]

\* The last two calls made on the cache.
LastTwo(l) == IF Len(l) > 2 THEN Tail(l) ELSE l

\* No healSelector call, no worker: only the cache's file and its callers.
InitCacheWith(f) ==
    /\ file \in CacheFiles
    /\ env = [OPENAI_API_KEY |-> "", AI_DISABLED |-> ""]
    /\ faulty = f
    /\ pc = "idle"
    /\ failedSelector = NULL
    /\ htmlSnapshot = <<>>
    /\ opts = NoOpts
    /\ attempt = 0
    /\ delay = 0
    /\ result = NULL
    /\ log = <<>>
    /\ fileAtCall = file
    /\ cleaned = NULL
    /\ workers = <<>>

\* A caller runs setHealed(k, healed, source).
SetHealedCall ==
    /\ \E k \in FailedSelectors, healed \in CacheSelectors, source \in CacheSources,
          readOk \in IoChoices, writeOk \in IoChoices :
          LET r == setHealed(file, readOk, writeOk, k, healed, source)
          IN  /\ file' = r.file
              /\ log' = LastTwo(Append(log, EvSetCall(k, healed, source, r.threw)))
    /\ fileAtCall' = file
    /\ UNCHANGED <<env, faulty, pc, failedSelector, htmlSnapshot, opts, attempt, delay,
                   result, cleaned, workers>>

\* A caller runs getHealed(k).
GetHealedCall ==
    /\ \E k \in FailedSelectors, readOk \in IoChoices :
          log' = LastTwo(Append(log, EvGetCall(k, getHealed(file, readOk, k))))
    /\ fileAtCall' = file
    /\ UNCHANGED <<file, env, faulty, pc, failedSelector, htmlSnapshot, opts, attempt,
                   delay, result, cleaned, workers>>

NextCache == SetHealedCall \/ GetHealedCall

\* The cache on a file system that works, and on one whose calls may throw.
SpecCache == InitCacheWith(FALSE) /\ [][NextCache]_vars
SpecCacheFaulty == InitCacheWith(TRUE) /\ [][NextCache]_vars

\* ------------------------------------------- two workers, one cache file

\* Playwright workers are separate processes sharing healed-locators.json.
\* Worker 1 heals '#login-button-invalid', worker 2 heals '#login-button'.
WorkerIds == {1, 2}
WorkerKey(w) == IF w = 1 THEN BrokenInvalid ELSE BrokenLogin

\* A worker about to run setHealed(WorkerKey(w), healed, source); db is the
\* object its readFile() returned.
WorkerStart(healed, source) ==
    [at |-> "start", healed |-> healed, source |-> source, db |-> EmptyDb]

EvRead(w) == [e |-> "read", w |-> w]
EvWrite(w) == [e |-> "write", w |-> w]

InitRace ==
    /\ file \in CacheFiles
    /\ env = [OPENAI_API_KEY |-> "", AI_DISABLED |-> ""]
    /\ faulty = FALSE
    /\ pc = "idle"
    /\ failedSelector = NULL
    /\ htmlSnapshot = <<>>
    /\ opts = NoOpts
    /\ attempt = 0
    /\ delay = 0
    /\ result = NULL
    /\ log = <<>>
    /\ fileAtCall = file
    /\ cleaned = NULL
    /\ workers \in [WorkerIds -> { WorkerStart(h, o) : h \in CacheSelectors,
                                                      o \in {"heuristic", "ai"} }]

\* const db = readFile();  (null makes the assignment that follows throw)
WorkerRead(w) ==
    /\ workers[w].at = "start"
    /\ LET r == readFile(file, TRUE)
       IN  workers' = [workers EXCEPT
                         ![w].at = IF r.t = "null" THEN "threw" ELSE "read",
                         ![w].db = IF r.t = "null" THEN EmptyDb ELSE r.db]
    /\ log' = Append(log, EvRead(w))
    /\ UNCHANGED <<file, env, faulty, pc, failedSelector, htmlSnapshot, opts, attempt,
                   delay, result, fileAtCall, cleaned>>

\* Mutant: a write that takes the file's current content, not the worker's
\* own earlier read (a read-modify-write under a lock).
WorkerWriteLocked(w) ==
    /\ workers[w].at = "read"
    /\ file' = writeFile(file, TRUE,
                         Put(readFile(file, TRUE).db, WorkerKey(w),
                             CacheEntry(workers[w].healed, workers[w].source)))
    /\ workers' = [workers EXCEPT ![w].at = "done"]
    /\ log' = Append(log, EvWrite(w))
    /\ UNCHANGED <<env, faulty, pc, failedSelector, htmlSnapshot, opts, attempt,
                   delay, result, fileAtCall, cleaned>>

\* db[broken] = {healed, source, ts}; writeFile(db);
WorkerWrite(w) ==
    /\ workers[w].at = "read"
    /\ file' = writeFile(file, TRUE,
                         Put(workers[w].db, WorkerKey(w),
                             CacheEntry(workers[w].healed, workers[w].source)))
    /\ workers' = [workers EXCEPT ![w].at = "done"]
    /\ log' = Append(log, EvWrite(w))
    /\ UNCHANGED <<env, faulty, pc, failedSelector, htmlSnapshot, opts, attempt,
                   delay, result, fileAtCall, cleaned>>

NextRace == \E w \in WorkerIds : WorkerRead(w) \/ WorkerWrite(w)

SpecRace == InitRace /\ [][NextRace]_vars

\* ------------------------------------------------- the heuristic alone

BtnInbox == [NoAttr EXCEPT !.tag = "button", !.id = <<"inbox">>, !.text = <<"inbox">>]
BtnSubmit == [NoAttr EXCEPT !.tag = "button", !.id = <<"submit">>, !.text = <<"submit">>]
BtnDataTestContainer ==
    [NoAttr EXCEPT !.tag = "button", !.dt = <<"login", "container">>, !.name = <<"login">>]
BtnDataTestSub == [NoAttr EXCEPT !.tag = "button", !.dt = <<"subcontainer">>]
DivRoleLogin == [NoAttr EXCEPT !.role = "button", !.dt = <<"login", "button">>]
AnchorSubmit ==
    [NoAttr EXCEPT !.tag = "a", !.id = <<"submit">>, !.cls = << <<"btn", "primary">> >>]

\* Elements a snapshot handed to heuristicHeal is made of.
HeurElements ==
    { BtnLogin, InputSubmit, DivLoginContainer, BtnContainer, DivRoleButton,
      AnchorBtnPrimary, AnchorBtn, BtnTestid, BtnPlain, BtnInbox, BtnSubmit,
      BtnDataTestContainer, BtnDataTestSub, DivRoleLogin, AnchorSubmit }

HeurSnapshots == UNION { [1..n -> HeurElements] : n \in 0..MaxElements }

\* '#login-button-invalid', '#submit-invalid', '#inbox-invalid'
HeurFailed ==
    { BrokenInvalid, IdSel(<<"submit", "invalid">>), IdSel(<<"inbox", "invalid">>) }

InitHeuristic ==
    /\ file = FileJson(EmptyDb)
    /\ env = [OPENAI_API_KEY |-> "", AI_DISABLED |-> ""]
    /\ faulty = FALSE
    /\ pc = "idle"
    /\ failedSelector \in HeurFailed
    /\ htmlSnapshot \in HeurSnapshots
    /\ opts = NoOpts
    /\ attempt = 0
    /\ delay = 0
    /\ result = NULL
    /\ log = <<>>
    /\ fileAtCall = file
    /\ cleaned = NULL
    /\ workers = <<>>

\* const heuristic = heuristicHeal($, failedSelector);
HeuristicHealCall ==
    /\ pc = "idle"
    /\ pc' = "returned"
    /\ result' = heuristicHeal(htmlSnapshot, failedSelector)
    /\ UNCHANGED <<file, env, faulty, failedSelector, htmlSnapshot, opts, attempt, delay,
                   log, fileAtCall, cleaned, workers>>

NextHeuristic == HeuristicHealCall

SpecHeuristic == InitHeuristic /\ [][NextHeuristic]_vars

\* -------------------------------------------------- calls that terminate

\* The program with a credential, on a cache that holds a stale entry, so
\* that every call may reach its AI stage.
InitLive ==
    /\ file = FileJson(Put(EmptyDb, BrokenInvalid,
                           CacheEntry(ClassSel(<<"login", "container">>), "ai")))
    /\ env = [OPENAI_API_KEY |-> "sk", AI_DISABLED |-> ""]
    /\ faulty = FALSE
    /\ pc = "idle"
    /\ failedSelector = NULL
    /\ htmlSnapshot = <<>>
    /\ opts = NoOpts
    /\ attempt = 0
    /\ delay = 0
    /\ result = NULL
    /\ log = <<>>
    /\ fileAtCall = file
    /\ cleaned = NULL
    /\ workers = <<>>

\* Every pending request settles (a response or an error) and every timer
\* set by the backoff fires.
SpecLive == InitLive /\ [][Next]_vars /\ WF_vars(AxiosSettles) /\ WF_vars(TimerFires)

\* ----------------------------------------------------------- properties

\* Positions of the log that hold an event of the given kind.
At(kind) == { i \in 1..Len(log) : log[i].e = kind }

Requests == Cardinality(At("request"))

\* The call has returned a selector.
Healed == pc = "returned" /\ result # NULL

\* C1: a selector that healSelector returns, from whichever stage, is
\* clickable in the snapshot passed to that call.
C1_ReturnedIsClickable ==
    Healed => isClickableSelector(htmlSnapshot, result)

\* A selector came back from each of the three stages' paths: here the AI one.
C1_Witness ==
    /\ Healed
    /\ At("response") # {}
    /\ \E i \in 1..Len(htmlSnapshot) :
          ElMatches(htmlSnapshot[i], result) /\ ClickableEl(htmlSnapshot[i])

\* The cache held, when the call began, an entry for the broken locator
\* whose selector is clickable in the call's snapshot.
FreshEntryAtCall ==
    /\ pc # "idle"
    /\ fileAtCall.kind = "json"
    /\ failedSelector \in DOMAIN fileAtCall.db
    /\ isClickableSelector(htmlSnapshot, fileAtCall.db[failedSelector].healed)

\* C2: with a cached entry that is clickable in the current snapshot the
\* call returns that entry's selector, and it runs no heuristic, issues no
\* request and writes nothing to the cache, whatever the options are.
C2_CacheHitShortCircuits ==
    FreshEntryAtCall =>
        /\ pc = "returned"
        /\ result = fileAtCall.db[failedSelector].healed
        /\ log = <<EvCache(TRUE)>>
        /\ file = fileAtCall

\* A cache hit in a call that enables both later stages and has a credential.
C2_Witness ==
    /\ FreshEntryAtCall
    /\ opts.preferHeuristic = <<TRUE>>
    /\ opts.allowAI = <<TRUE>>
    /\ env.OPENAI_API_KEY # ""
    /\ pc = "returned"

\* The call got past its synchronous part without throwing.
PastLookup == pc \in {"request", "sleep", "returned"}

\* C3: the stages run in the order cache, heuristic, AI.  The heuristic
\* runs only after the cache lookup missed, the AI stage only after the
\* heuristic failed or was switched off, every request inside the AI stage;
\* and a stage is left out only after an earlier success, with its option
\* off, or (AI) without a credential.
C3_StageOrder ==
    /\ \A i \in At("cache") : i = 1
    /\ \A i \in At("heuristic") :
          i = 2 /\ log[1] = EvCache(FALSE) /\ preferHeuristicOf(opts)
    /\ \A i \in At("ai") :
          /\ log[1] = EvCache(FALSE)
          /\ \/ i = 3 /\ log[2] = EvHeuristic(FALSE)
             \/ i = 2 /\ ~preferHeuristicOf(opts)
          /\ allowAIOf(opts)
          /\ env.OPENAI_API_KEY # ""
    /\ \A i \in At("request") \cup At("response") \cup At("sleep") :
          \E j \in At("ai") : j < i
    /\ PastLookup =>
          /\ At("cache") = {1}
          /\ At("heuristic") = {} => log[1].hit \/ ~preferHeuristicOf(opts)
          /\ At("ai") = {} =>
                \/ log[1].hit
                \/ EvHeuristic(TRUE) \in Range(log)
                \/ ~allowAIOf(opts)
                \/ env.OPENAI_API_KEY = ""

\* All three stages ran, in order, and the AI stage issued a request.
C3_Witness ==
    /\ Len(log) >= 4
    /\ log[1] = EvCache(FALSE)
    /\ log[2] = EvHeuristic(FALSE)
    /\ log[3] = EvAI
    /\ log[4] = EvRequest

\* C4: whatever healSelector hands to setHealed is clickable in the call's
\* snapshot and carries the origin of the stage that produced it: heuristic
\* right after the heuristic found it, ai right after a 2xx answer; and the
\* write makes it the cache's entry for the broken locator.
C4_WrittenEntries ==
    \A i \in At("setHealed") :
        /\ isClickableSelector(htmlSnapshot, log[i].healed)
        /\ i > 1
        /\ \/ log[i].source = "heuristic" /\ log[i - 1] = EvHeuristic(TRUE)
           \/ log[i].source = "ai" /\ log[i - 1] = EvResponse(200) /\ At("heuristic") \subseteq {2}
                /\ EvHeuristic(TRUE) \notin Range(log)
        /\ pc = "returned" =>
              /\ result = log[i].healed
              /\ file.kind = "json"
              /\ failedSelector \in DOMAIN file.db
              /\ file.db[failedSelector] = CacheEntry(log[i].healed, log[i].source)

\* The AI stage's selector was written over an older entry of the key.
C4_Witness ==
    /\ pc = "returned"
    /\ \E i \in At("setHealed") : log[i].source = "ai"
    /\ fileAtCall.kind = "json"
    /\ failedSelector \in DOMAIN fileAtCall.db
    /\ file # fileAtCall

\* The cache held, when the call began, an entry for the broken locator
\* whose selector is not clickable in the call's snapshot.
StaleEntryAtCall ==
    /\ pc # "idle"
    /\ fileAtCall.kind = "json"
    /\ failedSelector \in DOMAIN fileAtCall.db
    /\ ~isClickableSelector(htmlSnapshot, fileAtCall.db[failedSelector].healed)

\* C5: a cached entry that is not clickable in the current snapshot counts
\* as a miss and the heuristic runs next (when preferHeuristic); the file
\* stays as it was unless a later stage succeeds and calls setHealed, so it
\* is unchanged when the call returns null.
C5_StaleEntryIsMiss ==
    /\ StaleEntryAtCall =>
          /\ PastLookup
          /\ log[1] = EvCache(FALSE)
          /\ preferHeuristicOf(opts) => Len(log) >= 2 /\ log[2].e = "heuristic"
          /\ At("setHealed") = {} => file = fileAtCall
    /\ pc = "returned" /\ result = NULL => file = fileAtCall

\* A call with a stale entry ran the heuristic and the AI stage and
\* returned null.
C5_Witness ==
    /\ StaleEntryAtCall
    /\ pc = "returned"
    /\ result = NULL
    /\ At("heuristic") # {}
    /\ At("response") # {}
    /\ file.db[failedSelector] = fileAtCall.db[failedSelector]

RECURSIVE Pow2(_)
Pow2(n) == IF n = 0 THEN 1 ELSE 2 * Pow2(n - 1)

\* What the call did from the start of its AI stage on.
AIPart == LET j == CHOOSE j \in At("ai") : TRUE IN SubSeq(log, j + 1, Len(log))

\* m requests, each answered 429, with a sleep of b, 2b, 4b, ... after each
\* but the last.
AllRateLimited(m, b) ==
    Flatten([ i \in 1..m |->
                <<EvRequest, EvResponse(429)>>
                  \o (IF i < m THEN <<EvSleep(b * Pow2(i - 1))>> ELSE <<>>) ])

\* The AI stage ran to its end and every answer it got was a 429.
OnlyRateLimits ==
    /\ pc = "returned"
    /\ At("ai") # {}
    /\ \A i \in At("response") : log[i].status = 429

\* C6: when every request of the AI stage is answered 429, the stage issues
\* exactly maxAIRetries requests, sleeps backoffMs, 2*backoffMs, ... between
\* consecutive requests (maxAIRetries - 1 sleeps), and the result is null.
C6_RateLimitBackoff ==
    OnlyRateLimits =>
        /\ AIPart = AllRateLimited(maxAIRetriesOf(opts), backoffMsOf(opts))
        /\ Requests = maxAIRetriesOf(opts)
        /\ Requests >= 1 => Cardinality(At("sleep")) = Requests - 1
        /\ result = NULL

\* Three or more requests, all answered 429: at least two sleeps.
C6_Witness ==
    /\ OnlyRateLimits
    /\ Requests >= 3
    /\ Cardinality(At("sleep")) >= 2

\* C7: a request that fails with anything but a 429 ends the AI stage: no
\* further request follows, and healSelector returns null (it does not
\* throw) with the cache file as it was.
C7_OtherFailureAborts ==
    \A i \in At("response") :
        log[i].status \notin {200, 429} =>
            /\ i = Len(log)
            /\ pc = "returned"
            /\ result = NULL
            /\ file = fileAtCall

\* A request failed with a status other than 429, or with no response at
\* all, while attempts were left.
C7_Witness ==
    /\ pc = "returned"
    /\ Len(log) >= 1
    /\ log[Len(log)] \in {EvResponse(500), EvResponse(0)}
    /\ attempt < maxAIRetriesOf(opts)

\* The cache was empty when the call began.
EmptyCacheAtCall == fileAtCall \in {FileMissing, FileBlank, FileJson(EmptyDb)}

\* C8: a request is issued only in a call with allowAI on and with a
\* credential in the environment; with an empty cache, the heuristic off and
\* no credential the call returns null without any request.
C8_RequestNeedsAllowAIAndKey ==
    /\ At("request") # {} => allowAIOf(opts) /\ env.OPENAI_API_KEY # ""
    /\ pc # "idle" /\ EmptyCacheAtCall /\ ~preferHeuristicOf(opts) /\ env.OPENAI_API_KEY = ""
          => pc = "returned" /\ result = NULL /\ At("request") = {}

\* Empty cache, heuristic off, allowAI passed as true, no credential.
C8_Witness ==
    /\ pc = "returned"
    /\ EmptyCacheAtCall
    /\ opts.preferHeuristic = <<FALSE>>
    /\ opts.allowAI = <<TRUE>>
    /\ env.OPENAI_API_KEY = ""
    /\ log = <<EvCache(FALSE)>>

\* C9: with AI_DISABLED set, no call issues a request.
C9_DisableSwitchOverrides ==
    env.AI_DISABLED = "true" => At("request") = {}

\* C10: a call that omits allowAI issues no request.
C10_AllowAIDefaultsToFalse ==
    pc # "idle" /\ opts.allowAI = <<>> => At("request") = {}

\* ------------------------------------------------- properties of the cache

\* The last call on the cache was a setHealed that returned.
LastIsSet == log # <<>> /\ log[Len(log)].e = "set" /\ ~log[Len(log)].threw

\* C11: setHealed(k, s, o) followed at once by getHealed(k) yields the entry
\* (s, o), whatever the file held for k before; after a setHealed the file
\* holds exactly that entry for k (one entry per key, the newest write).
C11_SetThenGet ==
    /\ \A i \in 2..Len(log) :
          log[i].e = "get" /\ log[i - 1].e = "set" /\ log[i - 1].k = log[i].k
            /\ ~log[i - 1].threw
          => log[i].got = [t |-> "entry",
                           entry |-> [healed |-> log[i - 1].healed,
                                      source |-> log[i - 1].source]]
    /\ LastIsSet =>
          /\ file.kind = "json"
          /\ log[Len(log)].k \in DOMAIN file.db
          /\ file.db[log[Len(log)].k] = [healed |-> log[Len(log)].healed,
                                         source |-> log[Len(log)].source]

\* A setHealed for a key of a file with two entries, and the getHealed after
\* it returned an entry for that key.
C11_Witness ==
    /\ Len(log) = 2
    /\ log[1].e = "set" /\ ~log[1].threw
    /\ log[2].e = "get" /\ log[2].k = log[1].k
    /\ log[2].got.t = "entry"
    /\ fileAtCall.kind = "json"
    /\ log[1].k \in DOMAIN fileAtCall.db
    /\ BrokenLogin \in DOMAIN fileAtCall.db /\ BrokenInvalid \in DOMAIN fileAtCall.db

\* C12: getHealed and setHealed never throw, whatever the file holds and
\* whichever file system call fails.
C12_CacheNeverThrows ==
    \A i \in 1..Len(log) :
        /\ log[i].e = "set" => ~log[i].threw
        /\ log[i].e = "get" => log[i].got.t # "throw"

\* C20: a setHealed(k, ...) that returned left the entry of every other key
\* as it was, also when its read of the file failed and its write succeeded.
C20_SetKeepsOtherKeys ==
    LastIsSet /\ fileAtCall.kind = "json" =>
        \A k \in DOMAIN fileAtCall.db \ {log[Len(log)].k} :
            /\ file.kind = "json"
            /\ k \in DOMAIN file.db
            /\ file.db[k] = fileAtCall.db[k]

\* -------------------------------------------- properties of the two workers

\* Both workers' setHealed calls have returned.
BothDone == \A w \in WorkerIds : workers[w].at = "done"

\* Position in the log of worker w's read, and of its write.
ReadAt(w) == CHOOSE i \in 1..Len(log) : log[i] = EvRead(w)
WriteAt(w) == CHOOSE i \in 1..Len(log) : log[i] = EvWrite(w)

\* The file holds worker w's entry under w's key.
HoldsEntryOf(w) ==
    /\ file.kind = "json"
    /\ WorkerKey(w) \in DOMAIN file.db
    /\ file.db[WorkerKey(w)] = CacheEntry(workers[w].healed, workers[w].source)

\* The file holds under w's key what it held before either worker ran.
AsBeforeFor(w) ==
    /\ file.kind = "json"
    /\ IF fileAtCall.kind = "json" /\ WorkerKey(w) \in DOMAIN fileAtCall.db
       THEN WorkerKey(w) \in DOMAIN file.db
              /\ file.db[WorkerKey(w)] = fileAtCall.db[WorkerKey(w)]
       ELSE WorkerKey(w) \notin DOMAIN file.db

\* C13: two workers run setHealed for different broken locators on one file,
\* each reading and then writing in separate steps.  When both have
\* returned, the file holds the last writer's entry; it holds the other
\* worker's entry only if the last writer read after the other's write, and
\* otherwise the other's update is lost: its key is as before both ran.
C13_LastWriterWins ==
    BothDone =>
        LET last  == log[Len(log)].w
            other == 3 - last
        IN  /\ HoldsEntryOf(last)
            /\ IF WriteAt(other) < ReadAt(last)
               THEN HoldsEntryOf(other)
               ELSE AsBeforeFor(other)

\* Both workers read the empty cache, both wrote, and the file holds one
\* entry only: the first writer's healing is lost.
C13_Witness ==
    /\ BothDone
    /\ fileAtCall = FileJson(EmptyDb)
    /\ file.kind = "json"
    /\ \E w \in WorkerIds : DOMAIN file.db = {WorkerKey(w)}

\* ------------------------------------------------ properties of the heuristic

\* The value holds a container/wrapper marker somewhere in its text.
HasMarker(v) ==
    \E i \in 1..Len(v) : \E m \in {"container", "wrapper"} : SubstrOf(m, v[i])

\* The selector's text holds login-container, wrapper or container between
\* two of: start, end, a quote, '-', white space.
MatchesContainerPattern(sel) ==
    \/ sel.k \in {"id", "class"} /\ \E i \in 2..Len(sel.v) : sel.v[i] \in {"container", "wrapper"}
    \/ sel.k \in {"dt", "dti", "name", "aria"}
         /\ \E i \in 1..Len(sel.v) : sel.v[i] \in {"container", "wrapper"}

\* The best-scoring candidate's selector, <<>> when no candidate is left.
BestCandidate ==
    BestOf(extractTokens(failedSelector), Candidates(htmlSnapshot), <<>>)

\* C14: heuristicHeal never returns an id or data-test selector whose value
\* holds a container/wrapper marker, whichever element scores highest; what
\* it returns never matches the container pattern, and when the best
\* candidate's selector matches that pattern the result is null.
C14_NoContainerSelector ==
    pc = "returned" =>
        /\ result.k \in {"id", "dt"} => ~HasMarker(result.v)
        /\ result # NULL => ~MatchesContainerPattern(result)
        /\ BestCandidate # <<>> /\ MatchesContainerPattern(BestCandidate[1]) => result = NULL

\* The only candidate, so the best one, is a button whose data-test value
\* holds a marker; the selector returned is built from another attribute of
\* it.
C14_Witness ==
    /\ pc = "returned"
    /\ result # NULL
    /\ \E i \in 1..Len(htmlSnapshot) :
          /\ htmlSnapshot[i].tag = "button"
          /\ HasMarker(htmlSnapshot[i].dt)
          /\ ElMatches(htmlSnapshot[i], result)
          /\ \A j \in 1..Len(htmlSnapshot) : htmlSnapshot[j] = htmlSnapshot[i]

\* An element one of heuristicHeal's six candidate selectors matches.
IsCandidate(el) ==
    \/ el.tag = "button"
    \/ el.tag = "input" /\ el.type \in {"submit", "button"}
    \/ el.role = "button"
    \/ el.tag = "a" /\ <<"btn">> \in Range(el.cls)

\* The element's id or class text holds one of the wrapper words.
HasWrapperWord(el) ==
    \E w \in Range(el.id) \cup Range(ClassWords(el)) :
        \E m \in {"container", "wrapper", "form", "box", "panel", "section"} : SubstrOf(m, w)

\* The element's id is one of the tokens of the broken locator.
IdIsToken(el) == Len(el.id) = 1 /\ el.id[1] \in Range(extractTokens(failedSelector))

\* The claim as stated - C15: when the snapshot holds exactly one clickable
\* element and its id is a token of the broken locator, heuristicHeal
\* returns that element's '#id'.
C15_OneClickableIdToken ==
    pc = "returned" =>
        \A i \in 1..Len(htmlSnapshot) :
            /\ ClickableEl(htmlSnapshot[i])
            /\ \A j \in 1..Len(htmlSnapshot) : ClickableEl(htmlSnapshot[j]) => j = i
            /\ IdIsToken(htmlSnapshot[i])
            => result = IdSel(htmlSnapshot[i].id)

\* C15 (amended): when exactly one element of the snapshot is a heuristic
\* candidate, its id is a token of the broken locator and its id and class
\* hold none of container, wrapper, form, box, panel, section, heuristicHeal
\* returns that element's '#id'.
C15_OneCandidateIdToken ==
    pc = "returned" =>
        \A i \in 1..Len(htmlSnapshot) :
            /\ IsCandidate(htmlSnapshot[i])
            /\ \A j \in 1..Len(htmlSnapshot) : IsCandidate(htmlSnapshot[j]) => j = i
            /\ IdIsToken(htmlSnapshot[i])
            /\ ~HasWrapperWord(htmlSnapshot[i])
            => result = IdSel(htmlSnapshot[i].id)

\* A wrapper div and one button whose id is a token: '#submit' came back.
C15_Witness ==
    /\ pc = "returned"
    /\ Len(htmlSnapshot) = 2
    /\ htmlSnapshot[1] = DivLoginContainer
    /\ htmlSnapshot[2].tag = "button"
    /\ IdIsToken(htmlSnapshot[2])
    /\ result = IdSel(htmlSnapshot[2].id)

\* ------------------------------------------------- properties of scenarios

\* The call of tests/login.spec.ts on the login page's snapshot: the cache
\* empty, the heuristic on, the AI fallback off.
ScenarioA ==
    /\ pc # "idle"
    /\ EmptyCacheAtCall
    /\ preferHeuristicOf(opts)
    /\ ~allowAIOf(opts)
    /\ failedSelector = BrokenInvalid
    /\ htmlSnapshot = SnapLogin

\* C16: with an empty cache, preferHeuristic true and allowAI false,
\* healSelector('#login-button-invalid') on the snapshot of a div of class
\* login-container around the button with id and data-test login-button
\* returns '#login-button', which matches an element of the snapshot, and
\* the cache then holds it for the broken locator with origin heuristic.
C16_ScenarioAHealsById ==
    ScenarioA =>
        /\ pc = "returned"
        /\ result = IdSel(<<"login", "button">>)
        /\ Select(htmlSnapshot, result) # <<>>
        /\ file = FileJson(Put(EmptyDb, BrokenInvalid,
                               CacheEntry(IdSel(<<"login", "button">>), "heuristic")))

\* Scenario A ran on a cache file that did not exist, with a credential in
\* the environment.
C16_Witness ==
    /\ ScenarioA
    /\ pc = "returned"
    /\ fileAtCall = FileMissing
    /\ env.OPENAI_API_KEY # ""
    /\ opts.preferHeuristic = <<TRUE>>

\* ------------------------------------------------ properties of the AI stage

\* The latest request was answered 2xx and the cleaned first line of the
\* answer holds the container marker login-container.
MarkerAnswer == cleaned # NULL /\ LoginContainerText(cleaned)

\* Nothing followed the latest answer: aiHeal returned null, so did
\* healSelector, and the cache file is as it was.
AnswerDiscarded ==
    /\ pc = "returned"
    /\ result = NULL
    /\ log[Len(log)] = EvResponse(200)
    /\ file = fileAtCall

\* The claim as stated - C17: an answer whose cleaned first line matches the
\* container marker is unusable: the result is none and no further request
\* is issued, also when that selector resolves to a clickable element.
C17_MarkerAnswerIsUnusable ==
    MarkerAnswer => AnswerDiscarded

\* C17 (amended): an answer whose cleaned first line holds login-container
\* and is not clickable in the snapshot is unusable: the result is none and
\* no further request is issued; one that is clickable in the snapshot is
\* what aiHeal returns (on a working file system healSelector caches it with
\* origin ai and returns it).
C17_MarkerAnswerUnlessClickable ==
    MarkerAnswer =>
        IF isClickableSelector(htmlSnapshot, cleaned)
        THEN /\ pc = "returned"
             /\ result = cleaned
             /\ log[Len(log)] = EvSetHealed(cleaned, "ai")
        ELSE AnswerDiscarded

\* The first answer named the container and was discarded with attempts
\* left.
C17_Witness ==
    /\ MarkerAnswer
    /\ ~isClickableSelector(htmlSnapshot, cleaned)
    /\ pc = "returned"
    /\ Requests = 1
    /\ maxAIRetriesOf(opts) >= 2

Sleeps == Cardinality(At("sleep"))

\* A request other than the call's first one.
LaterRequests == { i \in At("request") : \E j \in At("request") : j < i }

\* The request at position i follows a 429 answer and a sleep of the
\* backoff interval current at that time.
AfterBackoff(i) ==
    /\ i > 2
    /\ log[i - 2] = EvResponse(429)
    /\ log[i - 1] =
         EvSleep(backoffMsOf(opts) * Pow2(Cardinality({ j \in At("sleep") : j < i - 1 })))

\* The claim as stated - C18: a request after the first follows a 429 answer
\* and a sleep of the current backoff interval; a 2xx answer is never
\* followed by another request.
C18_RetryOnlyAfterRateLimit ==
    /\ \A i \in LaterRequests : AfterBackoff(i)
    /\ \A i \in At("response") :
          log[i].status = 200 => \A j \in At("request") : j < i

\* The latest answer was a 2xx whose cleaned line is accepted (clickable) or
\* discarded for good (login-container).
FinalAnswer ==
    /\ cleaned # NULL
    /\ isClickableSelector(htmlSnapshot, cleaned) \/ LoginContainerText(cleaned)

\* C18 (amended): a request after the first follows either a 429 answer and
\* a sleep of the current backoff interval, or directly a 2xx answer whose
\* cleaned line is neither clickable in the snapshot nor holds
\* login-container; a 2xx answer whose line is clickable or holds
\* login-container is never followed by another request.
C18_RetryAfterRateLimitOrUnusable ==
    /\ \A i \in LaterRequests : AfterBackoff(i) \/ log[i - 1] = EvResponse(200)
    /\ pc = "request" /\ Len(log) >= 2 /\ log[Len(log) - 1] = EvResponse(200)
          => cleaned # NULL /\ ~FinalAnswer
    /\ FinalAnswer => pc = "returned" /\ log[Len(log)].e # "request"

\* A 429, a sleep, a second request answered 2xx with an unusable line, and
\* a third request right after it.
C18_Witness ==
    /\ pc = "request"
    /\ Requests = 3
    /\ Sleeps = 1
    /\ log[Len(log) - 1] = EvResponse(200)
    /\ cleaned = TagSel("div")

\* ------------------------------------------------ properties of termination

\* The call waits for a response or for its backoff timer.
InFlight == pc \in {"request", "sleep"}

\* C19: a healSelector call issues at most maxAIRetries requests and at most
\* maxAIRetries - 1 backoff sleeps (none when maxAIRetries is 0), whatever
\* the remote outcomes are, and a call that waits for a response or a timer
\* eventually returns a selector or null, given that every request settles.
C19_CallTerminates ==
    /\ [](/\ Requests <= maxAIRetriesOf(opts)
          /\ Sleeps = 0 \/ Sleeps <= maxAIRetriesOf(opts) - 1)
    /\ InFlight ~> pc = "returned"

\* A call used up its attempts: maxAIRetries requests, maxAIRetries - 1
\* sleeps, an unusable answer to the last request, and null returned.
C19_Witness ==
    /\ pc = "returned"
    /\ result = NULL
    /\ maxAIRetriesOf(opts) >= 2
    /\ Requests = maxAIRetriesOf(opts)
    /\ Sleeps = maxAIRetriesOf(opts) - 1
    /\ log[Len(log)] = EvResponse(200)

====
